---- MODULE Spec2Model ----
(***************************************************************************)
(* Model of python/torch_mlir_e2e_test/torchscript/annotations.py:         *)
(* the decorators export and annotate_args, and the two tree walks         *)
(* extract_serializable_annotations and apply_serializable_annotations.    *)
(*                                                                         *)
(* A Module is a node with an ordered attribute mapping (module.__dict__)  *)
(* and an ordered child mapping (named_children()).  A function object has *)
(* its own attribute dictionary, on which the decorators set the two       *)
(* fixed attribute names.  Attribute names and child names are kept        *)
(* disjoint, and every callable attribute is bound to a function object of *)
(* its own (no two names share one function).  A tag is on a function only *)
(* when export, annotate_args or apply put it there.                       *)
(***************************************************************************)
EXTENDS Integers, Sequences, FiniteSets, TLC

VARIABLES attrs, children, fdict, ret, op, calls

vars == <<attrs, children, fdict, ret, op, calls>>

(***************************************************************************)
(* Python's Optional: None is the empty tuple, a value v is <<v>>.         *)
(***************************************************************************)
None == <<>>
Some(v) == <<v>>

TORCH_MLIR_EXPORT_ATTR_NAME == "_torch_mlir_export"
TORCH_MLIR_ARG_ANNOTATIONS_ATTR_NAME == "_torch_mlir_arg_annotations"

(***************************************************************************)
(* Bounds.                                                                 *)
(***************************************************************************)
MaxCalls == 4

(***************************************************************************)
(* ArgAnnotation = Tuple[List[int], dtype]; a list entry is None or an     *)
(* ArgAnnotation.  The lists the decorator is called with: the empty list  *)
(* (which is not None) and [None, ([-1, 3], float32)].                     *)
(***************************************************************************)
ArgAnnotation(shape, dtype) == <<shape, dtype>>

EmptyArgs == <<>>
WildcardArgs == <<None, Some(ArgAnnotation(<<-1, 3>>, "float32"))>>

ArgLists == {EmptyArgs, WildcardArgs}

(***************************************************************************)
(* The Module trees the caller has built: two trees with the same names    *)
(* at every level (roots S and T).  A root has two function attributes     *)
(* f and g, a non-callable attribute k between them, and the children a    *)
(* and b in that order; a has no attributes and the child c; c has the     *)
(* function attribute f; b is empty.                                       *)
(***************************************************************************)
Nodes == {"S", "Sa", "Sb", "Sc", "T", "Ta", "Tb", "Tc"}

Fn(o) == [kind |-> "fn", id |-> o]
Data(o) == [kind |-> "data", id |-> o]

InitAttrs ==
    [n \in Nodes |->
        CASE n = "S"  -> << <<"f", Fn("S.f")>>, <<"k", Data("S.k")>>, <<"g", Fn("S.g")>> >>
          [] n = "Sc" -> << <<"f", Fn("Sc.f")>> >>
          [] n = "T"  -> << <<"f", Fn("T.f")>>, <<"k", Data("T.k")>>, <<"g", Fn("T.g")>> >>
          [] n = "Tc" -> << <<"f", Fn("Tc.f")>> >>
          [] OTHER    -> << >>]

InitChildren ==
    [n \in Nodes |->
        CASE n = "S"  -> << <<"a", "Sa">>, <<"b", "Sb">> >>
          [] n = "Sa" -> << <<"c", "Sc">> >>
          [] n = "T"  -> << <<"a", "Ta">>, <<"b", "Tb">> >>
          [] n = "Ta" -> << <<"c", "Tc">> >>
          [] OTHER    -> << >>]

Fns == {"S.f", "S.g", "Sc.f", "T.f", "T.g", "Tc.f"}

\* The modules extract is called on (the tree S, its empty leaf and its leaf
\* with a method), and the modules apply is called on (the tree T and its
\* leaf with a method).
ExtractRoots == {"S", "Sb", "Sc"}
ApplyRoots == {"T", "Tc"}

(***************************************************************************)
(* Python primitives on objects and mappings.                              *)
(***************************************************************************)
callable(v) == v.kind = "fn"

hasattr(fd, o, a) == a \in DOMAIN fd[o]

\* setattr(fn, a, v) on a function object: sets or overwrites fn.__dict__[a].
setattr(fd, o, a, v) ==
    [fd EXCEPT ![o] = [x \in (DOMAIN @) \cup {a} |-> IF x = a THEN v ELSE @[x]]]

\* Position of name in an ordered mapping (0 when it is absent).
IndexOf(items, name) ==
    IF \E i \in DOMAIN items : items[i][1] = name
    THEN CHOOSE i \in DOMAIN items : items[i][1] = name
    ELSE 0

\* setattr(module, name, value): rebinds the name in place, or adds it last.
module_setattr(at, n, name, v) ==
    IF IndexOf(at[n], name) = 0
    THEN [at EXCEPT ![n] = Append(@, <<name, v>>)]
    ELSE [at EXCEPT ![n][IndexOf(at[n], name)] = <<name, v>>]

(***************************************************************************)
(* The decorators.  Each returns fn; the state change is the setattr.      *)
(***************************************************************************)
\* Lines 29-44.
export(fd, fn) == setattr(fd, fn, TORCH_MLIR_EXPORT_ATTR_NAME, TRUE)

\* annotate_args adding to the list the function already carries.
annotate_argsExtend(fd, annotations, fn) ==
    setattr(fd, fn, TORCH_MLIR_ARG_ANNOTATIONS_ATTR_NAME,
            IF hasattr(fd, fn, TORCH_MLIR_ARG_ANNOTATIONS_ATTR_NAME)
            THEN fd[fn][TORCH_MLIR_ARG_ANNOTATIONS_ATTR_NAME] \o annotations
            ELSE annotations)

\* Lines 52-70: annotate_args(annotations)(fn).
annotate_args(fd, annotations, fn) ==
    setattr(fd, fn, TORCH_MLIR_ARG_ANNOTATIONS_ATTR_NAME, annotations)

(***************************************************************************)
(* SerializableMethodAnnotation and SerializableModuleAnnotations.         *)
(***************************************************************************)
SerializableMethodAnnotation(method_name, exp, arg_annotations) ==
    [method_name |-> method_name, export |-> exp, arg_annotations |-> arg_annotations]

SerializableModuleAnnotations(method_annotations, submodule_annotations) ==
    [method_annotations |-> method_annotations,
     submodule_annotations |-> submodule_annotations]

(***************************************************************************)
(* extract_serializable_annotations.                                       *)
(***************************************************************************)
\* Lines 93-98: the two locals after the hasattr tests.
ExtractExport(fd, o) ==
    IF hasattr(fd, o, TORCH_MLIR_EXPORT_ATTR_NAME)
    THEN Some(fd[o][TORCH_MLIR_EXPORT_ATTR_NAME]) ELSE None

ExtractArgAnnotations(fd, o) ==
    IF hasattr(fd, o, TORCH_MLIR_ARG_ANNOTATIONS_ATTR_NAME)
    THEN Some(fd[o][TORCH_MLIR_ARG_ANNOTATIONS_ATTR_NAME]) ELSE None

\* ExtractMethods with `or` where line 99 has `and`.
RECURSIVE ExtractMethodsEitherTag(_, _, _)
ExtractMethodsEitherTag(fd, items, i) ==
    IF i > Len(items) THEN << >>
    ELSE LET method_name == items[i][1]
             method == items[i][2]
             rest == ExtractMethodsEitherTag(fd, items, i + 1)
         IN  IF ~callable(method) THEN rest
             ELSE IF ExtractExport(fd, method.id) # None
                     \/ ExtractArgAnnotations(fd, method.id) # None
                  THEN << SerializableMethodAnnotation(
                             method_name,
                             ExtractExport(fd, method.id),
                             ExtractArgAnnotations(fd, method.id)) >> \o rest
                  ELSE rest

\* Lines 89-103: the loop over module.__dict__.items(), from position i.
RECURSIVE ExtractMethods(_, _, _)
ExtractMethods(fd, items, i) ==
    IF i > Len(items) THEN << >>
    ELSE LET method_name == items[i][1]
             method == items[i][2]
             rest == ExtractMethods(fd, items, i + 1)
         IN  IF ~callable(method) THEN rest
             ELSE IF ExtractExport(fd, method.id) # None
                     /\ ExtractArgAnnotations(fd, method.id) # None
                  THEN << SerializableMethodAnnotation(
                             method_name,
                             ExtractExport(fd, method.id),
                             ExtractArgAnnotations(fd, method.id)) >> \o rest
                  ELSE rest

RECURSIVE ExtractModule(_, _, _, _)
\* ExtractChildren leaving out the children whose annotations are empty.
RECURSIVE ExtractChildrenPruneEmpty(_, _, _, _, _)
ExtractChildrenPruneEmpty(at, ch, fd, n, j) ==
    IF j > Len(ch[n]) THEN << >>
    ELSE LET name == ch[n][j][1]
             child == ch[n][j][2]
             annotations == ExtractModule(at, ch, fd, child)
             rest == ExtractChildrenPruneEmpty(at, ch, fd, n, j + 1)
         IN  IF annotations = SerializableModuleAnnotations(<< >>, << >>)
             THEN rest
             ELSE << <<name, annotations>> >> \o rest

RECURSIVE ExtractChildren(_, _, _, _, _)
\* Lines 106-108: the loop over module.named_children(), from position j.
ExtractChildren(at, ch, fd, n, j) ==
    IF j > Len(ch[n]) THEN << >>
    ELSE LET name == ch[n][j][1]
             child == ch[n][j][2]
             annotations == ExtractModule(at, ch, fd, child)
         IN  << <<name, annotations>> >> \o ExtractChildren(at, ch, fd, n, j + 1)

\* Lines 84-109.
ExtractModule(at, ch, fd, n) ==
    SerializableModuleAnnotations(ExtractMethods(fd, at[n], 1),
                                  ExtractChildren(at, ch, fd, n, 1))

(***************************************************************************)
(* apply_serializable_annotations.  The walk threads the heap through the  *)
(* records in order: st.fdict, st.attrs and st.children are the heap so    *)
(* far, st.err is None until a lookup raises AttributeError, after which   *)
(* nothing more is done (the exception propagates out of every enclosing   *)
(* call).                                                                  *)
(***************************************************************************)
Raise(st, n, name) == [st EXCEPT !.err = Some([module |-> n, name |-> name])]

\* getattr(module, name) on the attribute mapping: 0 stands for AttributeError.
module_getattr(at, n, name) == IndexOf(at[n], name)

\* getattr(module, name) on the child mapping: None stands for AttributeError.
child_getattr(ch, n, name) ==
    IF IndexOf(ch[n], name) = 0 THEN None ELSE Some(ch[n][IndexOf(ch[n], name)][2])

\* Lines 117-119: setattr(module, name, export(getattr(module, name))).
\* setattr on a non-function value (an int, say) raises AttributeError too.
ApplyExport(st, n, name) ==
    IF st.err # None THEN st
    ELSE IF module_getattr(st.attrs, n, name) = 0 THEN Raise(st, n, name)
    ELSE LET fn == st.attrs[n][module_getattr(st.attrs, n, name)][2]
         IN  IF ~callable(fn) THEN Raise(st, n, name)
             ELSE [st EXCEPT !.fdict = export(@, fn.id),
                             !.attrs = module_setattr(@, n, name, fn)]

\* ApplyArgAnnotations passing over a name the module does not have.
ApplyArgAnnotationsSkipMissing(st, n, name, annotations) ==
    IF st.err # None THEN st
    ELSE IF module_getattr(st.attrs, n, name) = 0 THEN st
    ELSE LET fn == st.attrs[n][module_getattr(st.attrs, n, name)][2]
         IN  IF ~callable(fn) THEN Raise(st, n, name)
             ELSE [st EXCEPT !.fdict = annotate_args(@, annotations, fn.id),
                             !.attrs = module_setattr(@, n, name, fn)]

\* Lines 120-124: setattr(module, name, annotate_args(a)(getattr(module, name))).
ApplyArgAnnotations(st, n, name, annotations) ==
    IF st.err # None THEN st
    ELSE IF module_getattr(st.attrs, n, name) = 0 THEN Raise(st, n, name)
    ELSE LET fn == st.attrs[n][module_getattr(st.attrs, n, name)][2]
         IN  IF ~callable(fn) THEN Raise(st, n, name)
             ELSE [st EXCEPT !.fdict = annotate_args(@, annotations, fn.id),
                             !.attrs = module_setattr(@, n, name, fn)]

\* ApplyMethod with `elif` where line 120 has `if`.
ApplyMethodElif(st, n, method_annotation) ==
    IF method_annotation.export # None
    THEN ApplyExport(st, n, method_annotation.method_name)
    ELSE IF method_annotation.arg_annotations # None
         THEN ApplyArgAnnotations(st, n, method_annotation.method_name,
                                  method_annotation.arg_annotations[1])
         ELSE st

\* ApplyMethod without the test of line 117.
ApplyMethodAlwaysExport(st, n, method_annotation) ==
    LET st1 == ApplyExport(st, n, method_annotation.method_name)
    IN  IF method_annotation.arg_annotations # None
        THEN ApplyArgAnnotations(st1, n, method_annotation.method_name,
                                 method_annotation.arg_annotations[1])
        ELSE st1

\* Lines 115-124: the body of the loop for one method_annotation.
ApplyMethod(st, n, method_annotation) ==
    LET st1 == IF method_annotation.export # None
               THEN ApplyExport(st, n, method_annotation.method_name)
               ELSE st
    IN  IF method_annotation.arg_annotations # None
        THEN ApplyArgAnnotations(st1, n, method_annotation.method_name,
                                 method_annotation.arg_annotations[1])
        ELSE st1

\* Lines 115-124: the loop over annotations.method_annotations, from position i.
RECURSIVE ApplyMethods(_, _, _, _)
ApplyMethods(st, n, method_annotations, i) ==
    IF i > Len(method_annotations) \/ st.err # None THEN st
    ELSE ApplyMethods(ApplyMethod(st, n, method_annotations[i]),
                      n, method_annotations, i + 1)

RECURSIVE ApplyModule(_, _, _)
\* ApplyChildren creating an empty child Module for a name it does not find.
RECURSIVE ApplyChildrenCreate(_, _, _, _)
ApplyChildrenCreate(st, n, submodule_annotations, j) ==
    IF j > Len(submodule_annotations) \/ st.err # None THEN st
    ELSE LET name == submodule_annotations[j][1]
             child == child_getattr(st.children, n, name)
             fresh == "new"
             made == [st EXCEPT
                        !.children = [x \in (DOMAIN @) \cup {fresh} |->
                                        IF x = n THEN Append(@[n], <<name, fresh>>)
                                        ELSE IF x = fresh THEN << >> ELSE @[x]],
                        !.attrs = [x \in (DOMAIN @) \cup {fresh} |->
                                     IF x = fresh THEN << >> ELSE @[x]]]
         IN  IF child = None
             THEN ApplyChildrenCreate(
                      ApplyModule(made, fresh, submodule_annotations[j][2]),
                      n, submodule_annotations, j + 1)
             ELSE ApplyChildrenCreate(
                      ApplyModule(st, child[1], submodule_annotations[j][2]),
                      n, submodule_annotations, j + 1)

RECURSIVE ApplyChildren(_, _, _, _)
\* Lines 127-129: the loop over annotations.submodule_annotations, from j.
ApplyChildren(st, n, submodule_annotations, j) ==
    IF j > Len(submodule_annotations) \/ st.err # None THEN st
    ELSE LET name == submodule_annotations[j][1]
             child == child_getattr(st.children, n, name)
         IN  IF child = None THEN Raise(st, n, name)
             ELSE ApplyChildren(
                      ApplyModule(st, child[1], submodule_annotations[j][2]),
                      n, submodule_annotations, j + 1)

\* Lines 112-129.
ApplyModule(st, n, annotations) ==
    ApplyChildren(ApplyMethods(st, n, annotations.method_annotations, 1),
                  n, annotations.submodule_annotations, 1)

(***************************************************************************)
(* Annotation trees a caller passes to apply_serializable_annotations      *)
(* besides the value extract_serializable_annotations returned.            *)
(***************************************************************************)
Rec(method_name, exp, arg_annotations) ==
    SerializableMethodAnnotation(method_name, exp, arg_annotations)

Leaf(method_annotations) == SerializableModuleAnnotations(method_annotations, << >>)

\* Under child a, the child c with the given method records.
UnderA(method_annotations) ==
    <<"a", SerializableModuleAnnotations(<< >>, << <<"c", Leaf(method_annotations)>> >>)>>

\* A method name "foo" the module does not have, between two it has.
MissingMethodInput ==
    SerializableModuleAnnotations(
        << Rec("f", Some(TRUE), None),
           Rec("foo", Some(TRUE), Some(WildcardArgs)),
           Rec("g", Some(TRUE), None) >>,
        << UnderA(<< Rec("f", None, Some(WildcardArgs)) >>) >>)

\* Records with absent components (one of them for the missing name "foo"),
\* and a record whose export component is False.
AbsentComponentsInput ==
    SerializableModuleAnnotations(
        << Rec("foo", None, None),
           Rec("f", None, Some(EmptyArgs)),
           Rec("g", Some(FALSE), None) >>,
        << UnderA(<< Rec("f", Some(TRUE), None) >>), <<"b", Leaf(<< >>)>> >>)

\* A child name "z" the module does not have, between two it has.
MissingChildInput ==
    SerializableModuleAnnotations(
        << Rec("g", Some(TRUE), Some(WildcardArgs)) >>,
        << UnderA(<< Rec("f", Some(TRUE), Some(EmptyArgs)) >>),
           <<"z", Leaf(<< >>)>>,
           <<"b", Leaf(<< Rec("f", Some(TRUE), None) >>)>> >>)

\* A missing name whose record has only the arg_annotations component.
MissingArgsOnlyInput ==
    SerializableModuleAnnotations(
        << Rec("g", None, Some(EmptyArgs)),
           Rec("foo", None, Some(EmptyArgs)),
           Rec("f", Some(TRUE), None) >>,
        << >>)

\* A record naming the non-callable attribute k.
NonCallableInput ==
    Leaf(<< Rec("f", Some(TRUE), Some(WildcardArgs)), Rec("k", Some(TRUE), None) >>)

Inputs ==
    {MissingMethodInput, AbsentComponentsInput, MissingChildInput,
     MissingArgsOnlyInput, NonCallableInput}

(***************************************************************************)
(* The state: the heap (attrs, children, fdict), the value the last        *)
(* extract call returned (ret), the last call made with its arguments and  *)
(* what the caller saw of it (op: for a decorator the function's           *)
(* dictionary before the call and the value returned, for apply the        *)
(* AttributeError raised, if any), and how many calls were made (calls).   *)
(***************************************************************************)
Init ==
    /\ attrs = InitAttrs
    /\ children = InitChildren
    /\ fdict = [o \in Fns |-> << >>]
    /\ ret = None
    /\ op = [name |-> "none"]
    /\ calls = 0

\* export(fn), lines 29-44.
CallExport(fn) ==
    /\ calls < MaxCalls
    /\ fdict' = export(fdict, fn)
    /\ op' = [name |-> "export", fn |-> fn, before |-> fdict[fn], result |-> fn]
    /\ calls' = calls + 1
    /\ UNCHANGED <<attrs, children, ret>>

\* annotate_args(annotations)(fn), lines 52-70.
CallAnnotateArgs(annotations, fn) ==
    /\ calls < MaxCalls
    /\ fdict' = annotate_args(fdict, annotations, fn)
    /\ op' = [name |-> "annotate_args", fn |-> fn, annotations |-> annotations,
              before |-> fdict[fn], result |-> fn]
    /\ calls' = calls + 1
    /\ UNCHANGED <<attrs, children, ret>>

\* A call of extract that takes the tags off the functions of the module.
CallExtractConsume(module) ==
    /\ calls < MaxCalls
    /\ ret' = Some(ExtractModule(attrs, children, fdict, module))
    /\ fdict' = [o \in DOMAIN fdict |->
                   IF \E i \in DOMAIN attrs[module] : attrs[module][i][2] = Fn(o)
                   THEN << >> ELSE fdict[o]]
    /\ op' = [name |-> "extract", module |-> module]
    /\ calls' = calls + 1
    /\ UNCHANGED <<attrs, children>>

\* extract_serializable_annotations(module), lines 84-109.
CallExtract(module) ==
    /\ calls < MaxCalls
    /\ ret' = Some(ExtractModule(attrs, children, fdict, module))
    /\ op' = [name |-> "extract", module |-> module]
    /\ calls' = calls + 1
    /\ UNCHANGED <<attrs, children, fdict>>

\* A call of apply that undoes what it did when a lookup fails.
CallApplyRollback(module, annotations) ==
    /\ calls < MaxCalls
    /\ LET st == ApplyModule([fdict |-> fdict, attrs |-> attrs,
                              children |-> children, err |-> None],
                             module, annotations)
       IN  /\ fdict' = IF st.err # None THEN fdict ELSE st.fdict
           /\ attrs' = IF st.err # None THEN attrs ELSE st.attrs
           /\ children' = st.children
           /\ op' = [name |-> "apply", module |-> module,
                     annotations |-> annotations, err |-> st.err]
    /\ calls' = calls + 1
    /\ UNCHANGED ret

\* apply_serializable_annotations(module, annotations), lines 112-129.
CallApply(module, annotations) ==
    /\ calls < MaxCalls
    /\ LET st == ApplyModule([fdict |-> fdict, attrs |-> attrs,
                              children |-> children, err |-> None],
                             module, annotations)
       IN  /\ fdict' = st.fdict
           /\ attrs' = st.attrs
           /\ children' = st.children
           /\ op' = [name |-> "apply", module |-> module,
                     annotations |-> annotations, err |-> st.err]
    /\ calls' = calls + 1
    /\ UNCHANGED ret

ExportStep == \E fn \in Fns : CallExport(fn)

AnnotateArgsStep == \E annotations \in ArgLists, fn \in Fns : CallAnnotateArgs(annotations, fn)

ExtractStep == \E module \in ExtractRoots : CallExtract(module)

ApplyExtractedStep == \E module \in ApplyRoots : ret # None /\ CallApply(module, ret[1])

ApplyInputStep == \E module \in ApplyRoots, annotations \in Inputs : CallApply(module, annotations)

Next ==
    \/ ExportStep
    \/ AnnotateArgsStep
    \/ ExtractStep
    \/ ApplyExtractedStep
    \/ ApplyInputStep

Spec == Init /\ [][Next]_vars

(***************************************************************************)
(* Vocabulary of the properties.                                           *)
(***************************************************************************)
HasExport(fd, o) == hasattr(fd, o, TORCH_MLIR_EXPORT_ATTR_NAME)
HasArgs(fd, o) == hasattr(fd, o, TORCH_MLIR_ARG_ANNOTATIONS_ATTR_NAME)
HasBoth(fd, o) == HasExport(fd, o) /\ HasArgs(fd, o)

\* The positions of the callable attributes of module n.
MethodsOf(n) == {i \in DOMAIN attrs[n] : callable(attrs[n][i][2])}

\* The names of the records of a list of MethodAnnotations.
RecordNames(method_annotations) ==
    {method_annotations[i].method_name : i \in DOMAIN method_annotations}

EmptyAnnotations == SerializableModuleAnnotations(<< >>, << >>)

(***************************************************************************)
(* C3.  Omission law: in the output of extract_serializable_annotations,   *)
(* at every level, every MethodAnnotation names a callable attribute of    *)
(* the corresponding module that carries both tags, with both components   *)
(* of the record present; a callable attribute carrying only the export    *)
(* tag, or only the arg-annotations tag, has no record.                    *)
(***************************************************************************)
RECURSIVE OmissionLaw(_, _)
OmissionLaw(n, annotations) ==
    /\ \A i \in DOMAIN annotations.method_annotations :
          LET r == annotations.method_annotations[i]
              k == IndexOf(attrs[n], r.method_name)
          IN  /\ k \in MethodsOf(n)
              /\ HasBoth(fdict, attrs[n][k][2].id)
              /\ r.export # None
              /\ r.arg_annotations # None
    /\ \A i \in MethodsOf(n) :
          HasExport(fdict, attrs[n][i][2].id) # HasArgs(fdict, attrs[n][i][2].id)
             => attrs[n][i][1] \notin RecordNames(annotations.method_annotations)
    /\ \A j \in DOMAIN annotations.submodule_annotations :
          LET child == child_getattr(children, n, annotations.submodule_annotations[j][1])
          IN  /\ child # None
              /\ OmissionLaw(child[1], annotations.submodule_annotations[j][2])

C3_OmissionLaw == op.name = "extract" => OmissionLaw(op.module, ret[1])

\* extract(S) with S.f carrying only the export tag and S.g only the other one.
C3_Witness ==
    /\ op.name = "extract" /\ op.module = "S"
    /\ HasExport(fdict, "S.f") /\ ~HasArgs(fdict, "S.f")
    /\ HasArgs(fdict, "S.g") /\ ~HasExport(fdict, "S.g")
    /\ ret[1].method_annotations = << >>

(***************************************************************************)
(* C7.  Structural mirroring: at every node the submodule_annotations of   *)
(* the output of extract_serializable_annotations has exactly one entry    *)
(* per named child, with the child's name, in the children's order,        *)
(* recursively; a node none of whose methods carries both tags has an      *)
(* empty method_annotations list, and a node with no methods and no        *)
(* children yields two empty lists.                                        *)
(***************************************************************************)
RECURSIVE Mirrors(_, _)
Mirrors(n, annotations) ==
    /\ Len(annotations.submodule_annotations) = Len(children[n])
    /\ \A j \in DOMAIN children[n] :
          /\ annotations.submodule_annotations[j][1] = children[n][j][1]
          /\ Mirrors(children[n][j][2], annotations.submodule_annotations[j][2])
    /\ (\A i \in MethodsOf(n) : ~HasBoth(fdict, attrs[n][i][2].id))
          => annotations.method_annotations = << >>
    /\ (attrs[n] = << >> /\ children[n] = << >>) => annotations = EmptyAnnotations

C7_StructuralMirroring == op.name = "extract" => Mirrors(op.module, ret[1])

\* extract(S) with a tagged method two levels down: the children a and b in
\* order, b empty but present, c under a.
C7_Witness ==
    /\ op.name = "extract" /\ op.module = "S"
    /\ Len(ret[1].submodule_annotations) = 2
    /\ ret[1].submodule_annotations[1][1] = "a"
    /\ ret[1].submodule_annotations[2] = <<"b", EmptyAnnotations>>
    /\ ret[1].submodule_annotations[1][2].method_annotations = << >>
    /\ ret[1].submodule_annotations[1][2].submodule_annotations[1][1] = "c"
    /\ Len(ret[1].submodule_annotations[1][2].submodule_annotations[1][2].method_annotations) = 1

(***************************************************************************)
(* C8.  Extract is read-only: a call of extract_serializable_annotations   *)
(* leaves every module's attribute mapping, every function's tags and      *)
(* every module's child mapping as they were.                              *)
(***************************************************************************)
C8_ExtractReadOnly ==
    [][op'.name = "extract" =>
          /\ attrs' = attrs
          /\ fdict' = fdict
          /\ children' = children]_vars

\* extract(S) returned a record for S.f, and S.f still carries both tags.
C8_Witness ==
    /\ op.name = "extract" /\ op.module = "S"
    /\ "f" \in RecordNames(ret[1].method_annotations)
    /\ HasBoth(fdict, "S.f")

(***************************************************************************)
(* C9.  Tree shape is preserved: after any sequence of calls, failing or   *)
(* not, the set of modules and every module's child mapping are as they    *)
(* were initially, and every module still has the attribute names it had.  *)
(***************************************************************************)
AttrNames(at) == [n \in DOMAIN at |-> [i \in DOMAIN at[n] |-> at[n][i][1]]]

C9_TreeShapePreserved ==
    /\ DOMAIN children = Nodes
    /\ DOMAIN attrs = Nodes
    /\ children = InitChildren
    /\ AttrNames(attrs) = AttrNames(InitAttrs)

\* An apply that went through a and c and then failed on the child name z.
C9_Witness ==
    /\ op.name = "apply" /\ op.module = "T"
    /\ op.annotations = MissingChildInput
    /\ op.err = Some([module |-> "T", name |-> "z"])
    /\ HasBoth(fdict, "Tc.f")

(***************************************************************************)
(* C10.  Decorator idempotence: a call of export leaves the function's     *)
(* export tag true, a call of annotate_args leaves its arg-annotations tag *)
(* equal to the sequence given; either returns the function it was given   *)
(* and leaves the function's other tag and the rest of the heap alone; and *)
(* a call that repeats the call before it (export on the same function,    *)
(* annotate_args with the same sequence on the same function) leaves the   *)
(* whole heap as the first call left it.                                   *)
(***************************************************************************)
OtherObjectsSame(fn) == \A o \in DOMAIN fdict : o # fn => fdict'[o] = fdict[o]

C10_DecoratorIdempotence ==
    [][/\ op'.name = "export" =>
            /\ HasExport(fdict', op'.fn)
            /\ fdict'[op'.fn][TORCH_MLIR_EXPORT_ATTR_NAME] = TRUE
            /\ op'.result = op'.fn
            /\ HasArgs(fdict', op'.fn) = HasArgs(fdict, op'.fn)
            /\ HasArgs(fdict, op'.fn) =>
                  fdict'[op'.fn][TORCH_MLIR_ARG_ANNOTATIONS_ATTR_NAME]
                     = fdict[op'.fn][TORCH_MLIR_ARG_ANNOTATIONS_ATTR_NAME]
            /\ OtherObjectsSame(op'.fn)
            /\ attrs' = attrs /\ children' = children
            /\ (op.name = "export" /\ op.fn = op'.fn) => fdict' = fdict
       /\ op'.name = "annotate_args" =>
            /\ HasArgs(fdict', op'.fn)
            /\ fdict'[op'.fn][TORCH_MLIR_ARG_ANNOTATIONS_ATTR_NAME] = op'.annotations
            /\ op'.result = op'.fn
            /\ HasExport(fdict', op'.fn) = HasExport(fdict, op'.fn)
            /\ HasExport(fdict, op'.fn) =>
                  fdict'[op'.fn][TORCH_MLIR_EXPORT_ATTR_NAME]
                     = fdict[op'.fn][TORCH_MLIR_EXPORT_ATTR_NAME]
            /\ OtherObjectsSame(op'.fn)
            /\ attrs' = attrs /\ children' = children
            /\ (op.name = "annotate_args" /\ op.fn = op'.fn
                   /\ op.annotations = op'.annotations) => fdict' = fdict
      ]_vars

\* annotate_args with [None, ([-1, 3], float32)] on a function that already
\* carried that list and the export tag.
C10_Witness ==
    /\ op.name = "annotate_args" /\ op.annotations = WildcardArgs
    /\ TORCH_MLIR_ARG_ANNOTATIONS_ATTR_NAME \in DOMAIN op.before
    /\ op.before[TORCH_MLIR_ARG_ANNOTATIONS_ATTR_NAME] = WildcardArgs
    /\ TORCH_MLIR_EXPORT_ATTR_NAME \in DOMAIN op.before
    /\ fdict[op.fn] = op.before

(***************************************************************************)
(* The order in which apply_serializable_annotations meets the records of  *)
(* an annotations tree on module n: the node's own method records in list  *)
(* order, then its child records in list order, depth-first.  A child      *)
(* record whose name the module does not have is a step of its own, and    *)
(* the records under it correspond to no module.                           *)
(***************************************************************************)
MethodStep(n, r) ==
    [kind |-> "method", module |-> n, name |-> r.method_name, rec |-> r]

ChildStep(n, name) ==
    [kind |-> "child", module |-> n, name |-> name, rec |-> Rec(name, None, None)]

RECURSIVE Walk(_, _)
RECURSIVE WalkChildren(_, _, _)
WalkChildren(n, subs, j) ==
    IF j > Len(subs) THEN << >>
    ELSE LET child == child_getattr(children, n, subs[j][1])
         IN  (IF child = None THEN << ChildStep(n, subs[j][1]) >>
              ELSE Walk(child[1], subs[j][2]))
             \o WalkChildren(n, subs, j + 1)

Walk(n, annotations) ==
    [i \in DOMAIN annotations.method_annotations |->
        MethodStep(n, annotations.method_annotations[i])]
    \o WalkChildren(n, annotations.submodule_annotations, 1)

\* The method name of a step does not exist on its module.
MissingMethod(step) ==
    step.kind = "method" /\ IndexOf(attrs[step.module], step.name) = 0

\* The function object a method step names (for a name bound to a function).
Target(step) == attrs[step.module][IndexOf(attrs[step.module], step.name)][2].id

HitsFunction(step) ==
    /\ step.kind = "method"
    /\ IndexOf(attrs[step.module], step.name) \in MethodsOf(step.module)

\* The step looks a name up and the lookup, or the tagging of what it finds, fails.
Fails(step) ==
    \/ step.kind = "child"
    \/ /\ step.kind = "method"
       /\ step.rec.export # None \/ step.rec.arg_annotations # None
       /\ ~HitsFunction(step)

FirstFailure(steps) ==
    IF \E i \in DOMAIN steps : Fails(steps[i])
    THEN CHOOSE i \in DOMAIN steps :
            Fails(steps[i]) /\ \A k \in DOMAIN steps : Fails(steps[k]) => i <= k
    ELSE Len(steps) + 1

\* No two records of one node of the tree have the same method name.
RECURSIVE UniqueNames(_)
UniqueNames(annotations) ==
    /\ \A i, k \in DOMAIN annotations.method_annotations :
          annotations.method_annotations[i].method_name
             = annotations.method_annotations[k].method_name => i = k
    /\ \A j \in DOMAIN annotations.submodule_annotations :
          UniqueNames(annotations.submodule_annotations[j][2])

(***************************************************************************)
(* C2.  After a successful apply_serializable_annotations, for every       *)
(* MethodAnnotation of the tree (method names unique per node) the method  *)
(* of that name carries the record's tags: its export tag equals the       *)
(* record's export value when that is not absent, true or false, and its   *)
(* arg-annotations tag equals the record's sequence when that is not       *)
(* absent.                                                                 *)
(***************************************************************************)
CarriesRecord(fd, step) ==
    /\ step.rec.export # None =>
          /\ HasExport(fd, Target(step))
          /\ fd[Target(step)][TORCH_MLIR_EXPORT_ATTR_NAME] = step.rec.export[1]
    /\ step.rec.arg_annotations # None =>
          /\ HasArgs(fd, Target(step))
          /\ fd[Target(step)][TORCH_MLIR_ARG_ANNOTATIONS_ATTR_NAME]
                = step.rec.arg_annotations[1]

C2_ApplyCarriesRecordTags ==
    (op.name = "apply" /\ op.err = None /\ UniqueNames(op.annotations)) =>
        \A steps \in {Walk(op.module, op.annotations)} :
            \A i \in DOMAIN steps : HitsFunction(steps[i]) => CarriesRecord(fdict, steps[i])

(***************************************************************************)
(* C4.  As claimed: whenever the annotations tree holds, at any level, a   *)
(* MethodAnnotation whose method name does not exist on the corresponding  *)
(* module, apply_serializable_annotations raises, whatever the record's    *)
(* components are.                                                         *)
(***************************************************************************)
C4_MissingMethodAlwaysRaises ==
    op.name = "apply" =>
        \A steps \in {Walk(op.module, op.annotations)} :
            (\E i \in DOMAIN steps : MissingMethod(steps[i])) => op.err # None

(***************************************************************************)
(* C4, amended.  Whenever the annotations tree holds, at any level, a      *)
(* MethodAnnotation with at least one component not absent whose method    *)
(* name does not exist on the corresponding module, the call raises a      *)
(* lookup error; and a successful call has met no such record.             *)
(***************************************************************************)
C4_MissingMethodRaises ==
    op.name = "apply" =>
        \A steps \in {Walk(op.module, op.annotations)} :
            (\E i \in DOMAIN steps :
                /\ MissingMethod(steps[i])
                /\ steps[i].rec.export # None \/ steps[i].rec.arg_annotations # None)
            => op.err # None

\* apply(T, ...) raised on "foo", whose record has only arg_annotations.
C4_Witness ==
    /\ op.name = "apply" /\ op.module = "T"
    /\ op.annotations = MissingArgsOnlyInput
    /\ op.err = Some([module |-> "T", name |-> "foo"])

(***************************************************************************)
(* C5.  Non-atomic failure: when apply_serializable_annotations fails, it  *)
(* fails at the first failing lookup of the walk and reports that name;    *)
(* every tag a record before it attaches is on the tree afterwards (an     *)
(* arg-annotations tag with the sequence of the last such record), and a   *)
(* tag that no record before the failing lookup attaches is as it was      *)
(* before the call.                                                        *)
(***************************************************************************)
\* Some step before position k attaches tag a to function o.
AttachedBefore(steps, k, o, a) ==
    \E i \in DOMAIN steps :
        /\ i < k /\ HitsFunction(steps[i]) /\ Target(steps[i]) = o
        /\ IF a = TORCH_MLIR_EXPORT_ATTR_NAME
           THEN steps[i].rec.export # None
           ELSE steps[i].rec.arg_annotations # None

\* The sequence the last step before position k attaches to function o.
LastArgsBefore(steps, k, o) ==
    LET S == {i \in DOMAIN steps :
                 /\ i < k /\ HitsFunction(steps[i]) /\ Target(steps[i]) = o
                 /\ steps[i].rec.arg_annotations # None}
        last == CHOOSE i \in S : \A m \in S : m <= i
    IN  steps[last].rec.arg_annotations[1]

TagSame(fd1, fd2, o, a) ==
    /\ hasattr(fd1, o, a) = hasattr(fd2, o, a)
    /\ hasattr(fd1, o, a) => fd1[o][a] = fd2[o][a]

TagNames == {TORCH_MLIR_EXPORT_ATTR_NAME, TORCH_MLIR_ARG_ANNOTATIONS_ATTR_NAME}

PrefixApplied(fdBefore, fdAfter, steps, k) ==
    \A o \in DOMAIN fdBefore :
        /\ \A a \in TagNames :
              IF AttachedBefore(steps, k, o, a)
              THEN hasattr(fdAfter, o, a)
              ELSE TagSame(fdBefore, fdAfter, o, a)
        /\ AttachedBefore(steps, k, o, TORCH_MLIR_ARG_ANNOTATIONS_ATTR_NAME) =>
              fdAfter[o][TORCH_MLIR_ARG_ANNOTATIONS_ATTR_NAME]
                 = LastArgsBefore(steps, k, o)

C5_NonAtomicFailure ==
    [][(op'.name = "apply" /\ op'.err # None) =>
          \A steps \in {Walk(op'.module, op'.annotations)} :
          \A k \in {FirstFailure(steps)} :
              /\ k <= Len(steps)
              /\ op'.err = Some([module |-> steps[k].module, name |-> steps[k].name])
              /\ PrefixApplied(fdict, fdict', steps, k)]_vars

\* apply(T, ...) raised on "foo": f, before it, is exported; g and c's f,
\* after it, are not tagged.
C5_Witness ==
    /\ op.name = "apply" /\ op.module = "T"
    /\ op.annotations = MissingMethodInput
    /\ op.err = Some([module |-> "T", name |-> "foo"])
    /\ HasExport(fdict, "T.f")
    /\ ~HasExport(fdict, "T.g")
    /\ ~HasArgs(fdict, "Tc.f")

(***************************************************************************)
(* C6.  Apply leaves absent components untouched: a call of                *)
(* apply_serializable_annotations never removes a tag, and a tag of a      *)
(* function that no record of the tree names with that component present   *)
(* is after the call exactly as it was before it.                          *)
(***************************************************************************)
C6_AbsentComponentsUntouched ==
    [][op'.name = "apply" =>
          \A steps \in {Walk(op'.module, op'.annotations)} :
              \A o \in DOMAIN fdict : \A a \in TagNames :
                 /\ hasattr(fdict, o, a) => hasattr(fdict', o, a)
                 /\ ~AttachedBefore(steps, Len(steps) + 1, o, a)
                       => TagSame(fdict, fdict', o, a)]_vars

\* A successful apply(T, ...) whose record for f has no export component and
\* whose record for g has no arg_annotations component: f still has no export
\* tag, and g still has the list it was annotated with before the call.
C6_Witness ==
    /\ op.name = "apply" /\ op.module = "T"
    /\ op.annotations = AbsentComponentsInput
    /\ op.err = None
    /\ ~HasExport(fdict, "T.f")
    /\ HasArgs(fdict, "T.f")
    /\ fdict["T.f"][TORCH_MLIR_ARG_ANNOTATIONS_ATTR_NAME] = EmptyArgs
    /\ HasExport(fdict, "T.g")
    /\ HasArgs(fdict, "T.g")
    /\ fdict["T.g"][TORCH_MLIR_ARG_ANNOTATIONS_ATTR_NAME] = WildcardArgs

(***************************************************************************)
(* Source and target of a round trip.                                      *)
(***************************************************************************)
MethodNames(n) == {attrs[n][i][1] : i \in MethodsOf(n)}
ChildNames(n) == {children[n][j][1] : j \in DOMAIN children[n]}
Child(n, name) == child_getattr(children, n, name)[1]
Method(n, name) == attrs[n][IndexOf(attrs[n], name)][2].id

\* s and t have identical method and child names at every level.
RECURSIVE SameNames(_, _)
SameNames(s, t) ==
    /\ MethodNames(s) = MethodNames(t)
    /\ ChildNames(s) = ChildNames(t)
    /\ \A name \in ChildNames(s) : SameNames(Child(s, name), Child(t, name))

\* The function objects of the methods of the tree under n.
RECURSIVE MethodsUnder(_)
MethodsUnder(n) ==
    {Method(n, name) : name \in MethodNames(n)}
    \cup UNION {MethodsUnder(Child(n, name)) : name \in ChildNames(n)}

\* The pairs <<source method, target method>> of trees with the same names.
RECURSIVE MethodPairs(_, _)
MethodPairs(s, t) ==
    {<<Method(s, name), Method(t, name)>> : name \in MethodNames(s)}
    \cup UNION {MethodPairs(Child(s, name), Child(t, name)) : name \in ChildNames(s)}

\* Every exported method of the tree under s has both tags.
ExportedHaveBoth(s) == \A o \in MethodsUnder(s) : HasExport(fdict, o) => HasArgs(fdict, o)

\* The last call was apply(t, extract(s)) on a target named like the source,
\* and it succeeded.
RoundTrip(s, t) ==
    /\ op.name = "apply" /\ op.module = t /\ op.err = None
    /\ SameNames(s, t)
    /\ op.annotations = ExtractModule(attrs, children, fdict, s)

====
